---- MODULE Spec2Model ----
(***************************************************************************)
(* ztarcc-rs: the dictionary compiler (build.rs) and the trie-based,       *)
(* two-pass, longest-prefix rewriting engine (src/lib.rs).                 *)
(*                                                                         *)
(* Strings are what Rust strings are: sequences of UTF-8 bytes.  A trie is *)
(* represented by the finite map from the byte string of each stored key   *)
(* to its value.                                                           *)
(***************************************************************************)
EXTENDS Integers, Sequences, FiniteSets, TLC

(***************************************************************************)
(* Bounds of the model.                                                    *)
(***************************************************************************)
\* Total number of lines over all dictionary source files.
MaxLines == 2
\* Number of characters of an input text of convert.
MaxInputChars == 2
\* Number of threads that call convert concurrently.
NThreads == 2

\* Longest text, in characters, given to ztarcc.
MaxDecoded == 3

(***************************************************************************)
(* UTF-8.                                                                  *)
(***************************************************************************)
\* The UTF-8 encoding of one code point.
Utf8(cp) ==
    IF cp < 128 THEN <<cp>>
    ELSE IF cp < 2048 THEN <<192 + (cp \div 64), 128 + (cp % 64)>>
    ELSE IF cp < 65536
         THEN <<224 + (cp \div 4096), 128 + ((cp \div 64) % 64), 128 + (cp % 64)>>
         ELSE <<240 + (cp \div 262144), 128 + ((cp \div 4096) % 64),
                128 + ((cp \div 64) % 64), 128 + (cp % 64)>>

\* The string made of the code points cps.
RECURSIVE Str(_)
Str(cps) == IF cps = <<>> THEN <<>> ELSE Utf8(Head(cps)) \o Str(Tail(cps))

\* str::is_char_boundary: offset i (0-based) of string s starts a character
\* or is the end of s.
is_char_boundary(s, i) ==
    \/ i = 0
    \/ i = Len(s)
    \/ /\ i > 0 /\ i < Len(s)
       /\ ~(s[i + 1] >= 128 /\ s[i + 1] < 192)

\* The code point decoded by chars().next() on a non-empty string s.
next_char(s) ==
    LET b == s[1] IN
    IF b < 128 THEN b
    ELSE IF b < 224 THEN (b % 32) * 64 + (s[2] % 64)
    ELSE IF b < 240 THEN (b % 16) * 4096 + (s[2] % 64) * 64 + (s[3] % 64)
    ELSE (b % 8) * 262144 + (s[2] % 64) * 4096 + (s[3] % 64) * 64 + (s[4] % 64)

\* char::len_utf8.
len_utf8(cp) ==
    IF cp < 128 THEN 1 ELSE IF cp < 2048 THEN 2 ELSE IF cp < 65536 THEN 3 ELSE 4

\* Number of characters of a string: its bytes that are not continuation bytes.
CharCount(s) == Cardinality({i \in 1..Len(s) : ~(s[i] >= 128 /\ s[i] < 192)})

\* s[i..] and s[i..j] with 0-based byte offsets.
SliceFrom(s, i) == SubSeq(s, i + 1, Len(s))
Slice(s, i, j) == SubSeq(s, i + 1, j)

(***************************************************************************)
(* Finite maps (HashMap<String, String>, and the key -> value content of a *)
(* trie).                                                                  *)
(***************************************************************************)
EmptyMap == [k \in {} |-> <<>>]

\* HashMap::insert: the new value replaces the one stored under the key.
MapInsert(m, k, v) == [x \in (DOMAIN m) \cup {k} |-> IF x = k THEN v ELSE m[x]]

(***************************************************************************)
(* build.rs: read_dict.                                                    *)
(***************************************************************************)
Tab == <<9>>
Space == <<32>>
AsciiWhitespace == {9, 10, 12, 13, 32}

\* Offsets (1-based) of the tabs of a line.
TabPositions(line) == {i \in 1..Len(line) : line[i] = 9}

\* rest.split_ascii_whitespace().next(): the first maximal run of bytes that
\* are not ASCII whitespace; <<>> stands for None (a token is never empty).
first_token(rest) ==
    LET starts == {i \in 1..Len(rest) : rest[i] \notin AsciiWhitespace} IN
    IF starts = {} THEN <<>>
    ELSE LET b == CHOOSE i \in starts : \A j \in starts : i <= j
             stops == {i \in b..Len(rest) : rest[i] \in AsciiWhitespace}
             e == IF stops = {} THEN Len(rest) + 1
                  ELSE CHOOSE i \in stops : \A j \in stops : i <= j
         IN SubSeq(rest, b, e - 1)

\* The loop of read_dict over the lines of one file: ok is FALSE when a line
\* has no tab ("could not split line").
RECURSIVE read_lines(_, _)
read_lines(lines, map) ==
    IF lines = <<>> THEN [ok |-> TRUE, map |-> map]
    ELSE LET line == Head(lines)
             tabs == TabPositions(line)
         IN IF tabs = {} THEN [ok |-> FALSE, map |-> map]
            ELSE LET t == CHOOSE i \in tabs : \A j \in tabs : i <= j
                     from == SubSeq(line, 1, t - 1)
                     rest == SubSeq(line, t + 1, Len(line))
                     tok == first_token(rest)
                 IN read_lines(Tail(lines),
                               IF tok = <<>> THEN map ELSE MapInsert(map, from, tok))

read_dict(lines) == read_lines(lines, EmptyMap)

(***************************************************************************)
(* build.rs: reverse_dict.  HashMap::from_iter over the swapped entries,   *)
(* taken in the unspecified iteration order of the input map: when two     *)
(* keys carry the same value, either may end up stored.                    *)
(***************************************************************************)
MapValues(m) == {m[k] : k \in DOMAIN m}

reverse_dict(in_dict) ==
    {r \in [MapValues(in_dict) -> DOMAIN in_dict] : \A v \in DOMAIN r : in_dict[r[v]] = v}

(***************************************************************************)
(* build.rs: build_all_dicts.                                              *)
(***************************************************************************)
Fwd(n) == [rev |-> FALSE, name |-> n]
Rev(n) == [rev |-> TRUE, name |-> n]

DictionaryKeys == {"FromStandard", "FromChina", "FromTaiwan", "FromHongKong",
                   "ToStandard", "ToChina", "ToTaiwan", "ToHongKong"}

dict_definitions ==
    [p \in DictionaryKeys |->
        CASE p = "FromStandard" -> <<>>
          [] p = "FromChina" -> <<Fwd("STCharacters"), Fwd("STPhrases")>>
          [] p = "FromTaiwan" -> <<Rev("TWVariants"), Fwd("TWVariantsRevPhrases"),
                                   Rev("TWPhrasesIT"), Rev("TWPhrasesName"),
                                   Rev("TWPhrasesOther")>>
          [] p = "FromHongKong" -> <<Rev("HKVariants"), Fwd("HKVariantsRevPhrases")>>
          [] p = "ToStandard" -> <<>>
          [] p = "ToChina" -> <<Fwd("TSCharacters"), Fwd("TSPhrases")>>
          [] p = "ToTaiwan" -> <<Fwd("TWVariants"), Fwd("TWPhrasesIT"),
                                 Fwd("TWPhrasesName"), Fwd("TWPhrasesOther")>>
          [] p = "ToHongKong" -> <<Fwd("HKVariants")>>]

SeqRange(s) == {s[i] : i \in 1..Len(s)}

\* dict_definitions.values().flatten()
InNames == UNION {SeqRange(dict_definitions[p]) : p \in DictionaryKeys}

\* ... .map(|v| v.trim_start_matches('!')): the files that are read.
names == {n.name : n \in InNames}

\* The tables requested with the "!" marker.
ReversedNames == {n \in InNames : n.rev}

(***************************************************************************)
(* trie_rs::map::TrieBuilder.  push stores the value at the node reached   *)
(* by the key's bytes, replacing a value stored there before; the root     *)
(* node cannot carry a value, and push of an empty key panics.             *)
(***************************************************************************)
Panicked == [ok |-> FALSE, trie |-> EmptyMap]

\* Mutant of push: a key that is stored keeps its first value.
push_keep_first(builder, k, v) ==
    IF ~builder.ok \/ k = <<>> THEN Panicked
    ELSE IF k \in DOMAIN builder.trie THEN builder
    ELSE [ok |-> TRUE, trie |-> MapInsert(builder.trie, k, v)]

\* Mutant of push: an empty key is dropped without a panic.
push_skip_empty(builder, k, v) ==
    IF ~builder.ok THEN Panicked
    ELSE IF k = <<>> THEN builder
    ELSE [ok |-> TRUE, trie |-> MapInsert(builder.trie, k, v)]

push(builder, k, v) ==
    IF ~builder.ok \/ k = <<>> THEN Panicked
    ELSE [ok |-> TRUE, trie |-> MapInsert(builder.trie, k, v)]

\* from_dict.iter().for_each(|(k, v)| builder.push(k, v.to_owned())), the
\* entries still to be pushed being todo.
RECURSIVE push_each(_, _, _)
push_each(builder, from_dict, todo) ==
    IF todo = {} THEN builder
    ELSE LET k == CHOOSE x \in todo : TRUE
         IN push_each(push(builder, k, from_dict[k]), from_dict, todo \ {k})

\* Mutant of long_keys: keys of 3 bytes are taken too.
long_keys_from_3(from_dict) == {k \in DOMAIN from_dict : Len(k) >= 3}

\* The keys of one table that go to the key set.
long_keys(from_dict) == {k \in DOMAIN from_dict : Len(k) > 3}

\* The loop over the in_names of one pass: the builder and the keys gathered.
RECURSIVE push_tables(_, _, _, _)
push_tables(in_names, ds, builder, acc) ==
    IF in_names = <<>> \/ ~builder.ok THEN [builder |-> builder, keys |-> acc]
    ELSE LET from_dict == ds[Head(in_names)]
         IN push_tables(Tail(in_names), ds,
                        push_each(builder, from_dict, DOMAIN from_dict),
                        acc \cup long_keys(from_dict))

\* One iteration of the closure over dict_definitions: a fresh builder, then
\* every table of the pass in the order of its definition.
assemble(p, ds) ==
    push_tables(dict_definitions[p], ds, [ok |-> TRUE, trie |-> EmptyMap], {})

(***************************************************************************)
(* Inputs: the dictionary source files.                                    *)
(***************************************************************************)
cA == Str(<<65>>)
cB == Str(<<66>>)
cYou == Str(<<20778>>)
cHua == Str(<<21270>>)

SampleLines ==
    { cA \o Tab \o cYou,
      cA \o cB \o Tab \o cA,
      cA \o Tab \o cYou \o cHua \o Space \o cB,
      Tab \o cA,
      cA,
      cB \o Tab \o Space }

Placements(tables, n) == UNION {[1..k -> tables \X SampleLines] : k \in 0..n}

RECURSIVE LinesFor(_, _)
LinesFor(pl, t) ==
    IF pl = <<>> THEN <<>>
    ELSE (IF Head(pl)[1] = t THEN <<Head(pl)[2]>> ELSE <<>>) \o LinesFor(Tail(pl), t)

\* The source directories with at most n lines in all, in the files tables.
FileSystems(tables, n) ==
    {[t \in names |-> LinesFor(pl, t)] : pl \in Placements(tables, n)}

\* The files given lines where convert is run.
RuntimeTables == {"STCharacters", "TWVariants", "TWPhrasesIT"}

\* Lines 74-80 as a function: the maps read, or the failure to read.
read_all(fs) ==
    LET got == [n \in names |-> read_dict(fs[n])] IN
    [ok |-> \A n \in names : got[n].ok,
     dicts |-> [d \in {Fwd(n) : n \in names} |-> got[d.name].map]]

\* Lines 84-95 as a function: every outcome of adding the reversed tables.
reverse_all(ds) ==
    {[d \in (DOMAIN ds) \cup ReversedNames |-> IF d \in ReversedNames THEN r[d] ELSE ds[d]] :
        r \in {q \in [ReversedNames -> UNION {reverse_dict(ds[Fwd(n.name)]) : n \in ReversedNames}] :
                  \A n \in ReversedNames : q[n] \in reverse_dict(ds[Fwd(n.name)])}}

\* What build_all_dicts leaves in $OUT_DIR for the source files fs, when it
\* ends without an error or a panic: one element per outcome of the reversals.
Compiled(fs) ==
    LET rd == read_all(fs) IN
    IF ~rd.ok THEN {}
    ELSE {[dicts |-> ds,
           artifacts |-> [p \in DictionaryKeys |-> assemble(p, ds).builder.trie],
           all_keys |-> UNION {assemble(p, ds).keys : p \in DictionaryKeys}] :
             ds \in {x \in reverse_all(rd.dicts) :
                        \A p \in DictionaryKeys : assemble(p, x).builder.ok}}

(***************************************************************************)
(* src/lib.rs: the script model.                                           *)
(***************************************************************************)
Script == {"ST", "CN", "TW", "HK"}

\* Mutant of CONFIGS_TO_STANDARD: the standard script is given a pass with
\* entries.
CONFIGS_TO_STANDARD_china ==
    [s \in Script |->
        CASE s = "ST" -> "FromChina"
          [] s = "CN" -> "FromChina"
          [] s = "TW" -> "FromTaiwan"
          [] s = "HK" -> "FromHongKong"]

CONFIGS_TO_STANDARD ==
    [s \in Script |->
        CASE s = "ST" -> "FromStandard"
          [] s = "CN" -> "FromChina"
          [] s = "TW" -> "FromTaiwan"
          [] s = "HK" -> "FromHongKong"]

CONFIGS_FROM_STANDARD ==
    [s \in Script |->
        CASE s = "ST" -> "ToStandard"
          [] s = "CN" -> "ToChina"
          [] s = "TW" -> "ToTaiwan"
          [] s = "HK" -> "ToHongKong"]

\* Mutant of keys: the two passes in the other order.
keys_swapped(from, to) == <<CONFIGS_FROM_STANDARD[to], CONFIGS_TO_STANDARD[from]>>

\* convert, line 96.
keys(from, to) == <<CONFIGS_TO_STANDARD[from], CONFIGS_FROM_STANDARD[to]>>

(***************************************************************************)
(* src/lib.rs: convert_word.                                               *)
(***************************************************************************)
\* trie_rs common_prefix_search: the stored keys that are prefixes of query,
\* each found after consuming its last byte, so shortest first and never
\* the empty prefix.
RECURSIVE prefix_matches(_, _, _)
prefix_matches(dict, query, n) ==
    IF n > Len(query) THEN <<>>
    ELSE (IF SubSeq(query, 1, n) \in DOMAIN dict
          THEN <<[matched |-> SubSeq(query, 1, n), value |-> dict[SubSeq(query, 1, n)]]>>
          ELSE <<>>) \o prefix_matches(dict, query, n + 1)

common_prefix_search(dict, query) == prefix_matches(dict, query, 1)

\* Iterator::last: <<>> stands for None, <<x>> for Some(x).
last(it) == IF it = <<>> THEN <<>> ELSE <<it[Len(it)]>>

\* Mutant of search: the first match is taken, not the last.
search_first(dict, query) ==
    IF common_prefix_search(dict, query) = <<>> THEN <<>>
    ELSE <<common_prefix_search(dict, query)[1]>>

\* Lines 65-66.
search(dict, query) == last(common_prefix_search(dict, query))

\* Mutant of scan_step: a match advances the offset by the length of the
\* value, not of the matched key.
scan_step_value_len(dict, word, offset) ==
    LET result == last(common_prefix_search(dict, SliceFrom(word, offset))) IN
    IF result # <<>>
    THEN [panic |-> FALSE, part |-> result[1].value, adv |-> Len(result[1].value)]
    ELSE LET len == len_utf8(next_char(SliceFrom(word, offset))) IN
         [panic |-> FALSE, part |-> Slice(word, offset, offset + len), adv |-> len]

\* Mutant of scan_step: the copy-through pushes the character and leaves the
\* offset where it is.
scan_step_no_advance(dict, word, offset) ==
    LET result == last(common_prefix_search(dict, SliceFrom(word, offset))) IN
    IF result # <<>>
    THEN [panic |-> FALSE, part |-> result[1].value, adv |-> Len(result[1].matched)]
    ELSE LET len == len_utf8(next_char(SliceFrom(word, offset))) IN
         [panic |-> FALSE, part |-> Slice(word, offset, offset + len), adv |-> 0]

\* One iteration of the scan loop (lines 65-85) at offset < word.len(): the
\* part pushed and the advance of the offset; panic when a slice is taken
\* off a character boundary or past the end of word.
scan_step(dict, word, offset) ==
    IF ~is_char_boundary(word, offset)
    THEN [panic |-> TRUE, part |-> <<>>, adv |-> 0]
    ELSE LET result == search(dict, SliceFrom(word, offset)) IN
         IF result # <<>>
         THEN [panic |-> FALSE, part |-> result[1].value, adv |-> Len(result[1].matched)]
         ELSE IF SliceFrom(word, offset) # <<>>
              THEN LET len == len_utf8(next_char(SliceFrom(word, offset))) IN
                   IF offset + len > Len(word) \/ ~is_char_boundary(word, offset + len)
                   THEN [panic |-> TRUE, part |-> <<>>, adv |-> 0]
                   ELSE [panic |-> FALSE, part |-> Slice(word, offset, offset + len),
                         adv |-> len]
              ELSE [panic |-> FALSE, part |-> SliceFrom(word, offset),
                    adv |-> Len(SliceFrom(word, offset))]

\* parts.join("")
RECURSIVE join(_)
join(ps) == IF ps = <<>> THEN <<>> ELSE Head(ps) \o join(Tail(ps))

(***************************************************************************)
(* Inputs of convert.                                                      *)
(***************************************************************************)
Chars == {65, 66, 20778}

Texts == UNION {[1..n -> Chars] : n \in 0..MaxInputChars}

\* The segmenter is a black box: it returns, in order, non-empty substrings
\* that cover the text.
RECURSIVE Cuts(_)
Cuts(cps) ==
    IF cps = <<>> THEN {<<>>}
    ELSE UNION {{<<Str(SubSeq(cps, 1, k))>> \o rest :
                    rest \in Cuts(SubSeq(cps, k + 1, Len(cps)))} : k \in 1..Len(cps)}

(***************************************************************************)
(* State.                                                                  *)
(***************************************************************************)
VARIABLES
    files,      \* opencc/data/dictionary: file name -> its lines
    dicts,      \* build_all_dicts: dicts, table name -> HashMap
    bpc,        \* build_all_dicts: where the build is
    pending,    \* passes of dict_definitions the loop has not visited yet
    artifacts,  \* $OUT_DIR: pass -> its compiled trie, for the passes written
    all_keys,   \* build_all_dicts: all_keys
    keys_file,  \* $OUT_DIR/keys.zpostcard: <<set>> once written, <<>> before
    DICTIONARIES, \* the Lazy: <<>> before the first access, <<map>> after
    cpc,        \* convert: "idle", "scan", "done" or "panicked"
    from_script, \* convert: from
    to_script,  \* convert: to
    all_words,  \* convert: the tokens of the input
    widx,       \* convert: index of the token being converted
    kidx,       \* convert_word: index in keys of the pass being run
    word,       \* convert_word: word
    offset,     \* convert_word: offset
    parts,      \* convert_word: parts
    result,     \* convert: the words collected
    consumed,   \* history: the <<offset, length>> consumed by each iteration of this pass
    applied,    \* history: for each token, the passes run on it: key, input, output
    corrupt,    \* the <<stage, file>> of $OUT_DIR that cannot be decompressed or deserialized
    JIEBA,      \* the Lazy: <<>> before it is loaded, <<words added>> after
    lz,         \* once_cell: for each Lazy its state, its init closure, the load under way
    tpc,        \* concurrent callers: where each thread is
    tcall,      \* concurrent callers: the locals of each thread's call of convert
    args,       \* ztarcc: --from and --to
    decoded,    \* ztarcc setup: decoded, the text of the input as code points
    units,      \* ztarcc setup: the Vec of lines par_iter runs over
    work,       \* rayon: for each worker the line it converts and the tokens cut from it
    taken,      \* rayon: the positions of units handed to a worker
    results,    \* history: position -> <<what convert returned for that line>>
    stored,     \* history: position -> how many results were produced for it
    finished,   \* history: the positions in the order their conversions completed
    lines,      \* ztarcc setup: lines, the collected Vec
    wl,         \* ztarcc setup: index in lines of the write loop
    wc,         \* ztarcc setup: index of the chunk in the line
    output,     \* the bytes written to output
    cli_pc      \* ztarcc setup: "idle", "split", "map", "write", "done"

buildVars == <<files, dicts, bpc, pending, artifacts, all_keys, keys_file>>

convVars == <<DICTIONARIES, cpc, from_script, to_script, all_words, widx, kidx,
              word, offset, parts, result, consumed, applied>>

convLocals == <<cpc, from_script, to_script, all_words, widx, kidx, word, offset,
                parts, result, consumed, applied>>

lazyVars == <<corrupt, JIEBA, lz, tpc, tcall>>

cliVars == <<args, decoded, units, work, taken, results, stored, finished, lines,
             wl, wc, output, cli_pc>>

vars == <<buildVars, convVars, lazyVars, cliVars>>

(***************************************************************************)
(* The compiler as a state machine.                                        *)
(***************************************************************************)
BuildStart(fs) ==
    /\ files = fs
    /\ dicts = EmptyMap
    /\ bpc = "read"
    /\ pending = DictionaryKeys
    /\ artifacts = EmptyMap
    /\ all_keys = {}
    /\ keys_file = <<>>

\* The library before any call.
ConvIdle ==
    /\ DICTIONARIES = <<>>
    /\ cpc = "idle"
    /\ from_script = "ST"
    /\ to_script = "ST"
    /\ all_words = <<>>
    /\ widx = 0
    /\ kidx = 0
    /\ word = <<>>
    /\ offset = 0
    /\ parts = <<>>
    /\ result = <<>>
    /\ consumed = <<>>
    /\ applied = <<>>

(***************************************************************************)
(* The Lazy statics of src/lib.rs and of the generated dicts.rs.           *)
(***************************************************************************)
Lazies == {"JIEBA", "DICTIONARIES"}

Threads == 1..NThreads

\* names, as write_source receives it: the passes in the order of the
\* generated enum.
names_order == <<"FromStandard", "FromChina", "FromTaiwan", "FromHongKong",
                 "ToStandard", "ToChina", "ToTaiwan", "ToHongKong">>

\* The steps of the closure of a Lazy, each a call that panics on a corrupt
\* file: DICTIONARIES decompresses every pass, then deserializes every pass
\* into the enum_map; JIEBA decompresses, then deserializes, the keys.
Stages(L) ==
    IF L = "JIEBA" THEN <<<<"decompress", "keys">>, <<"deserialize", "keys">>>>
    ELSE [i \in 1..Len(names_order) |-> <<"decompress", names_order[i]>>]
         \o [i \in 1..Len(names_order) |-> <<"deserialize", names_order[i]>>]

\* Every <<stage, file>> that can be corrupt.
AllStages == SeqRange(Stages("JIEBA")) \cup SeqRange(Stages("DICTIONARIES"))

\* The enum_map before any pass is deserialized into it.
Unbuilt == [p \in DictionaryKeys |-> <<>>]

FreshLazy == [state |-> "incomplete", init |-> TRUE, stage |-> 0,
              building |-> Unbuilt, loads |-> 0]

NoCall == [from |-> "ST", to |-> "ST", tokens |-> <<>>, widx |-> 0, kidx |-> 0,
           word |-> <<>>, result |-> <<>>, want |-> "JIEBA", dict |-> <<>>]

\* No thread has called convert yet; bad are the corrupt files.
LazyIdle(bad) ==
    /\ corrupt = bad
    /\ JIEBA = <<>>
    /\ lz = [L \in Lazies |-> FreshLazy]
    /\ tpc = [t \in Threads |-> "idle"]
    /\ tcall = [t \in Threads |-> NoCall]

\* ztarcc has not been started.
CliIdle ==
    /\ args = [from |-> "Simplified", to |-> "Taiwan"]
    /\ decoded = <<>>
    /\ units = <<>>
    /\ work = [t \in Threads |-> <<>>]
    /\ taken = {}
    /\ results = <<>>
    /\ stored = <<>>
    /\ finished = <<>>
    /\ lines = <<>>
    /\ wl = 0
    /\ wc = 0
    /\ output = <<>>
    /\ cli_pc = "idle"

\* Lines 74-80: every named file is read; a file that cannot be read panics.
ReadDicts ==
    /\ bpc = "read"
    /\ LET rd == read_all(files) IN
       IF ~rd.ok
       THEN /\ bpc' = "aborted"
            /\ UNCHANGED dicts
       ELSE /\ bpc' = "reverse"
            /\ dicts' = rd.dicts
    /\ UNCHANGED <<files, pending, artifacts, all_keys, keys_file, convVars, lazyVars, cliVars>>

\* Lines 84-95: every table named with "!" is derived from the table read.
ReverseDicts ==
    /\ bpc = "reverse"
    /\ dicts' \in reverse_all(dicts)
    /\ bpc' = "assemble"
    /\ UNCHANGED <<files, pending, artifacts, all_keys, keys_file, convVars, lazyVars, cliVars>>

\* Lines 99-134: one pass of dict_definitions, visited in the map's order.
BuildPass(p) ==
    /\ bpc = "assemble"
    /\ p \in pending
    /\ LET a == assemble(p, dicts) IN
       IF a.builder.ok
       THEN /\ artifacts' = MapInsert(artifacts, p, a.builder.trie)
            /\ all_keys' = all_keys \cup a.keys
            /\ pending' = pending \ {p}
            /\ bpc' = IF pending' = {} THEN "keys" ELSE "assemble"
       ELSE /\ bpc' = "aborted"
            /\ UNCHANGED <<artifacts, all_keys, pending>>
    /\ UNCHANGED <<files, dicts, keys_file, convVars, lazyVars, cliVars>>

\* Lines 138-145: the key set is written.
WriteKeys ==
    /\ bpc = "keys"
    /\ keys_file' = <<all_keys>>
    /\ bpc' = "done"
    /\ UNCHANGED <<files, dicts, pending, artifacts, all_keys, convVars, lazyVars, cliVars>>

BuildInit ==
    /\ \E fs \in FileSystems(names, MaxLines) : BuildStart(fs)
    /\ ConvIdle
    /\ LazyIdle({})
    /\ CliIdle

BuildNext ==
    \/ ReadDicts
    \/ ReverseDicts
    \/ \E p \in DictionaryKeys : BuildPass(p)
    \/ WriteKeys

BuildSpec == BuildInit /\ [][BuildNext]_vars

(***************************************************************************)
(* convert as a state machine, on the artifacts of a finished build.       *)
(***************************************************************************)
\* Deref of the Lazy (line 62): the first access loads the artifacts.
force(lazy) == IF lazy = <<>> THEN <<artifacts>> ELSE lazy

\* Lines 59-63 for one token: the first pass starts.
StartWord(w) ==
    /\ word' = w
    /\ kidx' = 1
    /\ offset' = 0
    /\ parts' = <<>>
    /\ consumed' = <<>>
    /\ DICTIONARIES' = force(DICTIONARIES)

\* Lines 94-97: the input is cut and the first token, if any, is taken.
Convert(from, to, cut) ==
    /\ cpc = "idle"
    /\ from_script' = from
    /\ to_script' = to
    /\ all_words' = cut
    /\ result' = <<>>
    /\ applied' = [w \in 1..Len(cut) |-> <<>>]
    /\ IF cut = <<>>
       THEN /\ cpc' = "done"
            /\ widx' = 0
            /\ UNCHANGED <<DICTIONARIES, kidx, word, offset, parts, consumed>>
       ELSE /\ cpc' = "scan"
            /\ widx' = 1
            /\ StartWord(cut[1])
    /\ UNCHANGED <<buildVars, lazyVars, cliVars>>

\* Lines 64-86: one iteration of the scan loop.
Scan ==
    /\ cpc = "scan"
    /\ offset < Len(word)
    /\ LET step == scan_step(DICTIONARIES[1][keys(from_script, to_script)[kidx]], word, offset) IN
       IF step.panic
       THEN /\ cpc' = "panicked"
            /\ UNCHANGED <<offset, parts, consumed>>
       ELSE /\ parts' = Append(parts, step.part)
            /\ offset' = offset + step.adv
            /\ consumed' = Append(consumed, <<offset, step.adv>>)
            /\ UNCHANGED cpc
    /\ UNCHANGED <<DICTIONARIES, from_script, to_script, all_words, widx, kidx, word,
                   result, applied>>
    /\ UNCHANGED <<buildVars, lazyVars, cliVars>>

\* Line 87 and what follows the end of the scan loop: the next pass on the
\* joined parts; after the last pass the word is collected (lines 89, 97-99)
\* and the next token, if any, is taken.
EndPass ==
    /\ cpc = "scan"
    /\ ~(offset < Len(word))
    /\ LET out == join(parts) IN
       /\ applied' = [applied EXCEPT ![widx] =
                         Append(@, [key |-> keys(from_script, to_script)[kidx],
                                    input |-> word, output |-> out,
                                    segs |-> consumed, end |-> offset])]
       /\ IF kidx < Len(keys(from_script, to_script))
          THEN /\ word' = out
               /\ kidx' = kidx + 1
               /\ offset' = 0
               /\ parts' = <<>>
               /\ consumed' = <<>>
               /\ DICTIONARIES' = force(DICTIONARIES)
               /\ UNCHANGED <<cpc, widx, result>>
          ELSE /\ result' = Append(result, out)
               /\ IF widx < Len(all_words)
                  THEN /\ widx' = widx + 1
                       /\ StartWord(all_words[widx + 1])
                       /\ UNCHANGED cpc
                  ELSE /\ cpc' = "done"
                       /\ word' = out
                       /\ UNCHANGED <<widx, kidx, offset, parts, consumed, DICTIONARIES>>
    /\ UNCHANGED <<from_script, to_script, all_words>>
    /\ UNCHANGED <<buildVars, lazyVars, cliVars>>

\* convert has returned: its locals are gone, the Lazy stays as it is, and
\* the library waits for the next call.
Return ==
    /\ cpc = "done"
    /\ cpc' = "idle"
    /\ from_script' = "ST"
    /\ to_script' = "ST"
    /\ all_words' = <<>>
    /\ widx' = 0
    /\ kidx' = 0
    /\ word' = <<>>
    /\ offset' = 0
    /\ parts' = <<>>
    /\ result' = <<>>
    /\ consumed' = <<>>
    /\ applied' = <<>>
    /\ UNCHANGED DICTIONARIES
    /\ UNCHANGED <<buildVars, lazyVars, cliVars>>

Init ==
    /\ \E fs \in FileSystems(RuntimeTables, MaxLines) :
         \E b \in Compiled(fs) :
            /\ files = fs
            /\ dicts = b.dicts
            /\ bpc = "done"
            /\ pending = {}
            /\ artifacts = b.artifacts
            /\ all_keys = b.all_keys
            /\ keys_file = <<b.all_keys>>
    /\ ConvIdle
    /\ LazyIdle({})
    /\ CliIdle

Next ==
    \/ \E from \in Script, to \in Script, text \in Texts :
          \E cut \in Cuts(text) : Convert(from, to, cut)
    \/ Scan
    \/ EndPass
    \/ Return

Spec == Init /\ [][Next]_vars

(***************************************************************************)
(* Concurrent callers of convert, and the one-time load of the Lazies.     *)
(***************************************************************************)
\* The source files of the build whose artifacts the threads load.
LazyFileSystem ==
    [t \in names |->
        IF t = "STCharacters" THEN <<cA \o Tab \o cYou, cA \o cB \o Tab \o cA>>
        ELSE IF t = "TWVariants" THEN <<cA \o Tab \o cYou>>
        ELSE <<>>]

\* The calls the threads make: from, to, and the tokens the segmenter will
\* return for the input.
LazyCalls ==
    {<<"CN", "TW", cut>> : cut \in UNION {Cuts(text) : text \in {<<>>, <<65>>, <<65, 66>>}}}

\* The cell of a Lazy.
value(L) == IF L = "JIEBA" THEN JIEBA ELSE DICTIONARIES

\* Mutant of may_initialize: a caller that finds the load under way starts
\* to initialize as well.
may_initialize_racy(L) == lz[L].state # "complete"

\* once_cell: the caller that moves the cell from incomplete to running is
\* the one that runs the closure.
may_initialize(L) == lz[L].state = "incomplete"

\* Mutant of poisoned: the closure is there for every caller that asks.
poisoned_never(L) == FALSE

\* Lazy::force: the closure was taken by an earlier caller ("Lazy instance
\* has previously been poisoned").
poisoned(L) == ~lz[L].init

\* One pass of convert_word over word (lines 63-87).
RECURSIVE rewrite_from(_, _, _, _)
rewrite_from(dict, w, off, ps) ==
    IF ~(off < Len(w)) THEN [panic |-> FALSE, out |-> join(ps)]
    ELSE LET step == scan_step(dict, w, off) IN
         IF step.panic THEN [panic |-> TRUE, out |-> <<>>]
         ELSE rewrite_from(dict, w, off + step.adv, Append(ps, step.part))

rewrite(dict, w) == rewrite_from(dict, w, 0, <<>>)

\* convert is called (line 93); its first access is JIEBA (line 94).
TCall(t, from, to, cut) ==
    /\ tpc[t] = "idle"
    /\ tcall' = [tcall EXCEPT ![t] = [NoCall EXCEPT !.from = from, !.to = to,
                                                     !.tokens = cut]]
    /\ tpc' = [tpc EXCEPT ![t] = "deref"]
    /\ UNCHANGED <<corrupt, JIEBA, lz, DICTIONARIES>>
    /\ UNCHANGED <<buildVars, convLocals, cliVars>>

\* Deref of a Lazy (lines 94 and 62).  A complete cell is read; an
\* incomplete one is taken for initialization; while another thread
\* initializes, the caller waits.
Deref(t) ==
    /\ tpc[t] = "deref"
    /\ LET L == tcall[t].want
           c == tcall[t]
       IN IF lz[L].state = "complete"
          THEN /\ IF L = "JIEBA"
                  THEN IF c.tokens = <<>>
                       THEN /\ tpc' = [tpc EXCEPT ![t] = "returned"]
                            /\ UNCHANGED tcall
                       ELSE /\ tcall' = [tcall EXCEPT ![t].widx = 1, ![t].kidx = 1,
                                                      ![t].word = c.tokens[1],
                                                      ![t].want = "DICTIONARIES"]
                            /\ UNCHANGED tpc
                  ELSE /\ tcall' = [tcall EXCEPT ![t].dict =
                                       <<value(L)[1][keys(c.from, c.to)[c.kidx]]>>]
                       /\ tpc' = [tpc EXCEPT ![t] = "rewrite"]
               /\ UNCHANGED lz
          ELSE IF may_initialize(L)
          THEN /\ lz' = [lz EXCEPT ![L].state = "running"]
               /\ tpc' = [tpc EXCEPT ![t] = "init"]
               /\ UNCHANGED tcall
          ELSE /\ tpc' = [tpc EXCEPT ![t] = "wait"]
               /\ UNCHANGED <<lz, tcall>>
    /\ UNCHANGED <<corrupt, JIEBA, DICTIONARIES>>
    /\ UNCHANGED <<buildVars, convLocals, cliVars>>

\* A waiting caller is woken when the initializing thread is done, and looks
\* at the cell again.
Wake(t) ==
    /\ tpc[t] = "wait"
    /\ lz[tcall[t].want].state # "running"
    /\ tpc' = [tpc EXCEPT ![t] = "deref"]
    /\ UNCHANGED <<corrupt, JIEBA, lz, tcall, DICTIONARIES>>
    /\ UNCHANGED <<buildVars, convLocals, cliVars>>

\* Lazy::force: the closure is taken and started, or, when it was taken
\* before, the caller panics and the cell goes back to incomplete.
RunInit(t) ==
    /\ tpc[t] = "init"
    /\ LET L == tcall[t].want IN
       IF ~poisoned(L)
       THEN /\ lz' = [lz EXCEPT ![L].init = FALSE, ![L].loads = @ + 1,
                                ![L].stage = 1, ![L].building = Unbuilt]
            /\ tpc' = [tpc EXCEPT ![t] = "load"]
       ELSE /\ lz' = [lz EXCEPT ![L].state = "incomplete"]
            /\ tpc' = [tpc EXCEPT ![t] = "panicked"]
    /\ UNCHANGED <<corrupt, JIEBA, tcall, DICTIONARIES>>
    /\ UNCHANGED <<buildVars, convLocals, cliVars>>

\* One step of the closure (build.rs lines 173-206, lib.rs lines 46-55): a
\* corrupt file panics (expect) and leaves the cell incomplete; the last
\* step stores the value and completes the cell.
LoadStage(t) ==
    /\ tpc[t] = "load"
    /\ LET L == tcall[t].want
           st == Stages(L)[lz[L].stage]
           b == IF L = "DICTIONARIES" /\ st[1] = "deserialize"
                THEN [lz[L].building EXCEPT ![st[2]] = <<artifacts[st[2]]>>]
                ELSE lz[L].building
       IN IF st \in corrupt
          THEN /\ lz' = [lz EXCEPT ![L].state = "incomplete"]
               /\ tpc' = [tpc EXCEPT ![t] = "panicked"]
               /\ UNCHANGED <<JIEBA, DICTIONARIES>>
          ELSE IF lz[L].stage < Len(Stages(L))
          THEN /\ lz' = [lz EXCEPT ![L].stage = @ + 1, ![L].building = b]
               /\ UNCHANGED <<tpc, JIEBA, DICTIONARIES>>
          ELSE /\ lz' = [lz EXCEPT ![L].state = "complete", ![L].building = b]
               /\ tpc' = [tpc EXCEPT ![t] = "deref"]
               /\ IF L = "JIEBA"
                  THEN JIEBA' = <<keys_file[1]>> /\ UNCHANGED DICTIONARIES
                  ELSE DICTIONARIES' = <<[p \in DictionaryKeys |-> b[p][1]]>>
                       /\ UNCHANGED JIEBA
    /\ UNCHANGED <<corrupt, tcall>>
    /\ UNCHANGED <<buildVars, convLocals, cliVars>>

\* One pass of convert_word with the dictionary obtained at line 62; after
\* the last pass the word is collected and the next token, if any, is taken.
RewritePass(t) ==
    /\ tpc[t] = "rewrite"
    /\ LET c == tcall[t]
           r == rewrite(c.dict[1], c.word)
       IN IF r.panic
          THEN /\ tpc' = [tpc EXCEPT ![t] = "panicked"]
               /\ UNCHANGED tcall
          ELSE IF c.kidx < Len(keys(c.from, c.to))
          THEN /\ tcall' = [tcall EXCEPT ![t].word = r.out, ![t].kidx = c.kidx + 1,
                                         ![t].dict = <<>>]
               /\ tpc' = [tpc EXCEPT ![t] = "deref"]
          ELSE IF c.widx < Len(c.tokens)
          THEN /\ tcall' = [tcall EXCEPT ![t].result = Append(c.result, r.out),
                                         ![t].widx = c.widx + 1, ![t].kidx = 1,
                                         ![t].word = c.tokens[c.widx + 1],
                                         ![t].dict = <<>>]
               /\ tpc' = [tpc EXCEPT ![t] = "deref"]
          ELSE /\ tcall' = [tcall EXCEPT ![t].result = Append(c.result, r.out),
                                         ![t].dict = <<>>]
               /\ tpc' = [tpc EXCEPT ![t] = "returned"]
    /\ UNCHANGED <<corrupt, JIEBA, lz, DICTIONARIES>>
    /\ UNCHANGED <<buildVars, convLocals, cliVars>>

\* convert has returned to the thread, which may call again.
TReturn(t) ==
    /\ tpc[t] = "returned"
    /\ tpc' = [tpc EXCEPT ![t] = "idle"]
    /\ tcall' = [tcall EXCEPT ![t] = NoCall]
    /\ UNCHANGED <<corrupt, JIEBA, lz, DICTIONARIES>>
    /\ UNCHANGED <<buildVars, convLocals, cliVars>>

LazyInit ==
    /\ \E b \in Compiled(LazyFileSystem) :
          /\ files = LazyFileSystem
          /\ dicts = b.dicts
          /\ bpc = "done"
          /\ pending = {}
          /\ artifacts = b.artifacts
          /\ all_keys = b.all_keys
          /\ keys_file = <<b.all_keys>>
    /\ ConvIdle
    /\ \E bad \in {{}} \cup {{st} : st \in AllStages} : LazyIdle(bad)
    /\ CliIdle

LazyNext ==
    \E t \in Threads :
       \/ \E call \in LazyCalls : TCall(t, call[1], call[2], call[3])
       \/ Deref(t)
       \/ Wake(t)
       \/ RunInit(t)
       \/ LoadStage(t)
       \/ RewritePass(t)
       \/ TReturn(t)

LazySpec == LazyInit /\ [][LazyNext]_vars

(***************************************************************************)
(* ztarcc: the lines of the input converted by rayon's workers, then       *)
(* written (src/bin/ztarcc/main.rs, setup).                                *)
(***************************************************************************)
NewLine == 10

\* The texts ztarcc is given, once decoded.
DecodedChars == {65, 66, NewLine}

DecodedTexts == UNION {[1..n -> DecodedChars] : n \in 0..MaxDecoded}

\* value_variants (line 28).
CliScripts == {"Simplified", "Taiwan", "HongKong"}

\* Lines 70-79: the script of the library for an argument.
script_of(a) ==
    CASE a = "Simplified" -> "CN"
      [] a = "Taiwan" -> "TW"
      [] a = "HongKong" -> "HK"

\* str::split_inclusive('\n'): the pieces keep their terminator, the last
\* piece may lack one, and the empty text has no piece.
RECURSIVE split_inclusive(_)
split_inclusive(cps) ==
    IF cps = <<>> THEN <<>>
    ELSE LET nl == {i \in 1..Len(cps) : cps[i] = NewLine} IN
         IF nl = {} THEN <<cps>>
         ELSE LET k == CHOOSE i \in nl : \A j \in nl : i <= j
              IN <<SubSeq(cps, 1, k)>> \o split_inclusive(SubSeq(cps, k + 1, Len(cps)))

\* convert_word (lib.rs lines 58-90) as a function of its arguments and of
\* the loaded DICTIONARIES: the passes of ks applied one after the other.
RECURSIVE convert_word(_, _)
convert_word(ks, input) ==
    IF ks = <<>> THEN input
    ELSE convert_word(Tail(ks), rewrite(force(DICTIONARIES)[1][Head(ks)], input).out)

\* convert (lib.rs lines 93-100) once the segmenter has cut the input into
\* all_words_: an iterator over the tokens, collected in their order.
convert(from, to, all_words_) ==
    [w \in 1..Len(all_words_) |-> convert_word(keys(from, to), all_words_[w])]

\* Mutant of collected: the Vec holds the results in the order in which
\* the workers completed them.
collected_as_completed == [k \in 1..Len(finished) |-> results[finished[k]][1]]

\* rayon collect of an indexed parallel iterator into a Vec (line 99): the
\* result for the item at position i is element i, whichever worker
\* produced it and whenever it did.
collected == [i \in 1..Len(units) |-> results[i][1]]

\* Lines 94-96: the text is split into the Vec of lines.
SplitLines ==
    /\ cli_pc = "split"
    /\ units' = split_inclusive(decoded)
    /\ results' = [i \in 1..Len(split_inclusive(decoded)) |-> <<>>]
    /\ stored' = [i \in 1..Len(split_inclusive(decoded)) |-> 0]
    /\ cli_pc' = "map"
    /\ UNCHANGED <<args, decoded, work, taken, finished, lines, wl, wc, output>>
    /\ UNCHANGED <<buildVars, convVars, lazyVars>>

\* Lines 97-98: a free worker of the pool gets a line no worker has had,
\* any of them, and calls convert on it; the segmenter cuts the line.
Take(t) ==
    /\ cli_pc = "map"
    /\ work[t] = <<>>
    /\ \E i \in (1..Len(units)) \ taken :
          \E cut \in Cuts(units[i]) :
             /\ work' = [work EXCEPT ![t] = <<[idx |-> i, all_words |-> cut]>>]
             /\ taken' = taken \cup {i}
    /\ UNCHANGED <<args, decoded, units, results, stored, finished, lines, wl, wc,
                   output, cli_pc>>
    /\ UNCHANGED <<buildVars, convVars, lazyVars>>

\* Line 98: the worker's call of convert returns, and its result is the
\* one of the line it was called on.
Finish(t) ==
    /\ cli_pc = "map"
    /\ work[t] # <<>>
    /\ LET job == work[t][1]
           r == convert(script_of(args.from), script_of(args.to), job.all_words)
       IN /\ results' = [results EXCEPT ![job.idx] = <<r>>]
          /\ stored' = [stored EXCEPT ![job.idx] = @ + 1]
          /\ finished' = Append(finished, job.idx)
    /\ work' = [work EXCEPT ![t] = <<>>]
    /\ UNCHANGED <<args, decoded, units, taken, lines, wl, wc, output, cli_pc>>
    /\ UNCHANGED <<buildVars, convVars, lazyVars>>

\* Line 99: every line is converted, collect returns the Vec.
Collect ==
    /\ cli_pc = "map"
    /\ taken = 1..Len(units)
    /\ \A t \in Threads : work[t] = <<>>
    /\ lines' = collected
    /\ wl' = 1
    /\ wc' = 1
    /\ cli_pc' = "write"
    /\ UNCHANGED <<args, decoded, units, work, taken, results, stored, finished, output>>
    /\ UNCHANGED <<buildVars, convVars, lazyVars>>

\* Lines 102-103: the next chunk of the line is written.
WriteChunk ==
    /\ cli_pc = "write"
    /\ wl <= Len(lines)
    /\ wc <= Len(lines[wl])
    /\ output' = output \o lines[wl][wc]
    /\ wc' = wc + 1
    /\ UNCHANGED <<args, decoded, units, work, taken, results, stored, finished, lines,
                   wl, cli_pc>>
    /\ UNCHANGED <<buildVars, convVars, lazyVars>>

\* Line 101: the chunks of the line are written, the loop moves on.
NextLine ==
    /\ cli_pc = "write"
    /\ wl <= Len(lines)
    /\ wc > Len(lines[wl])
    /\ wl' = wl + 1
    /\ wc' = 1
    /\ UNCHANGED <<args, decoded, units, work, taken, results, stored, finished, lines,
                   output, cli_pc>>
    /\ UNCHANGED <<buildVars, convVars, lazyVars>>

\* Line 106: the loop is over, setup returns Ok.
Exit ==
    /\ cli_pc = "write"
    /\ wl > Len(lines)
    /\ cli_pc' = "done"
    /\ UNCHANGED <<args, decoded, units, work, taken, results, stored, finished, lines,
                   wl, wc, output>>
    /\ UNCHANGED <<buildVars, convVars, lazyVars>>

\* ztarcc is started on a text, with its arguments parsed (lines 60-93).
CliInit ==
    /\ \E b \in Compiled(LazyFileSystem) :
          /\ files = LazyFileSystem
          /\ dicts = b.dicts
          /\ bpc = "done"
          /\ pending = {}
          /\ artifacts = b.artifacts
          /\ all_keys = b.all_keys
          /\ keys_file = <<b.all_keys>>
    /\ ConvIdle
    /\ LazyIdle({})
    /\ args \in [from : CliScripts, to : CliScripts]
    /\ decoded \in DecodedTexts
    /\ units = <<>>
    /\ work = [t \in Threads |-> <<>>]
    /\ taken = {}
    /\ results = <<>>
    /\ stored = <<>>
    /\ finished = <<>>
    /\ lines = <<>>
    /\ wl = 0
    /\ wc = 0
    /\ output = <<>>
    /\ cli_pc = "split"

CliNext ==
    \/ SplitLines
    \/ \E t \in Threads : Take(t)
    \/ \E t \in Threads : Finish(t)
    \/ Collect
    \/ WriteChunk
    \/ NextLine
    \/ Exit

CliSpec == CliInit /\ [][CliNext]_vars

(***************************************************************************)
(* Properties of convert_word and convert.                                 *)
(***************************************************************************)
IsPrefix(k, s) == Len(k) <= Len(s) /\ SubSeq(s, 1, Len(k)) = k

\* The keys of the pass dictionary p that are prefixes of s.
PrefixKeys(p, s) == {k \in DOMAIN artifacts[p] : IsPrefix(k, s)}

\* The compiled dictionary of the pass being run.
CurrentPass == keys(from_script, to_script)[kidx]

\* An iteration of the scan loop is about to run.
InLoop == cpc = "scan" /\ offset < Len(word)

\* C1: longest-match priority.  In every iteration of the scan loop, if one
\* or more keys of the pass dictionary are prefixes of the rest of the
\* token, the part pushed is the value of the longest of them and the offset
\* advances by the byte length of that key.
C1_LongestMatch ==
    [][InLoop =>
         LET ks == PrefixKeys(CurrentPass, SliceFrom(word, offset)) IN
         ks # {} =>
            \E k \in ks :
               /\ \A j \in ks : Len(j) <= Len(k)
               /\ parts' = Append(parts, artifacts[CurrentPass][k])
               /\ offset' = offset + Len(k)
               /\ cpc' = "scan"]_vars

\* An iteration has just consumed the longer of two keys that both matched
\* at its offset.
C1_Witness ==
    /\ cpc = "scan"
    /\ consumed # <<>>
    /\ LET seg == consumed[Len(consumed)]
           ks == PrefixKeys(CurrentPass, SliceFrom(word, seg[1]))
       IN /\ Cardinality(ks) >= 2
          /\ \A j \in ks : Len(j) <= seg[2]
          /\ \E k \in ks : Len(k) = seg[2] /\ parts[Len(parts)] = artifacts[CurrentPass][k]

\* The segments segs are laid end to end from offset 0 up to offset upto,
\* none of them empty.
Contiguous(segs, upto) ==
    /\ \A i \in 1..Len(segs) :
          /\ segs[i][2] > 0
          /\ segs[i][1] = (IF i = 1 THEN 0 ELSE segs[i - 1][1] + segs[i - 1][2])
    /\ upto = (IF segs = <<>> THEN 0 ELSE segs[Len(segs)][1] + segs[Len(segs)][2])

\* The byte at offset b lies in exactly one of the segments.
InOneSegment(segs, b) ==
    Cardinality({i \in 1..Len(segs) : segs[i][1] <= b /\ b < segs[i][1] + segs[i][2]}) = 1

\* C2: no byte loss.  During a pass the offset never exceeds the length of
\* the token and the iterations so far have consumed, one part each, the
\* bytes before the offset, every byte exactly once; when a pass has ended
\* its offset is the length of the token and every byte of the token was
\* consumed by exactly one iteration.
C2_NoByteLoss ==
    /\ cpc # "panicked"
    /\ cpc = "scan" =>
          /\ offset <= Len(word)
          /\ Len(parts) = Len(consumed)
          /\ Contiguous(consumed, offset)
          /\ \A b \in 0..(offset - 1) : InOneSegment(consumed, b)
    /\ \A w \in DOMAIN applied : \A i \in 1..Len(applied[w]) :
          LET rec == applied[w][i] IN
          /\ rec.end = Len(rec.input)
          /\ Contiguous(rec.segs, Len(rec.input))
          /\ \A b \in 0..(Len(rec.input) - 1) : InOneSegment(rec.segs, b)

\* A pass has ended that consumed its token by a dictionary match of more
\* than one byte and by a copy-through.
C2_Witness ==
    \E w \in DOMAIN applied : \E i \in 1..Len(applied[w]) :
       LET rec == applied[w][i] IN
       /\ Len(rec.segs) >= 2
       /\ \E a \in 1..Len(rec.segs) :
             /\ rec.segs[a][2] > 1
             /\ Slice(rec.input, rec.segs[a][1], rec.segs[a][1] + rec.segs[a][2])
                   \in DOMAIN artifacts[rec.key]
       /\ \E a \in 1..Len(rec.segs) :
             PrefixKeys(rec.key, SliceFrom(rec.input, rec.segs[a][1])) = {}

\* The pass that takes a script to the standard form, and the pass that
\* takes the standard form to a script.
VariantToStandard(s) ==
    CASE s = "ST" -> "FromStandard" [] s = "CN" -> "FromChina"
      [] s = "TW" -> "FromTaiwan" [] s = "HK" -> "FromHongKong"

StandardToVariant(s) ==
    CASE s = "ST" -> "ToStandard" [] s = "CN" -> "ToChina"
      [] s = "TW" -> "ToTaiwan" [] s = "HK" -> "ToHongKong"

\* C3: two-pass routing.  When convert has returned, every token has been
\* through exactly two passes: first the variant->standard pass of from on
\* the token itself, then the standard->variant pass of to on the whole
\* output of the first pass, and the word collected for the token is the
\* output of the second pass.  While a token is being converted, the passes
\* already run on it are a prefix of these two.
C3_TwoPassRouting ==
    /\ \A w \in DOMAIN applied :
          /\ Len(applied[w]) <= 2
          /\ Len(applied[w]) >= 1 =>
                /\ applied[w][1].key = VariantToStandard(from_script)
                /\ applied[w][1].input = all_words[w]
          /\ Len(applied[w]) = 2 =>
                /\ applied[w][2].key = StandardToVariant(to_script)
                /\ applied[w][2].input = applied[w][1].output
                /\ w <= Len(result) /\ result[w] = applied[w][2].output
    /\ cpc = "done" =>
          /\ Len(result) = Len(all_words)
          /\ \A w \in DOMAIN applied : Len(applied[w]) = 2

\* convert has returned after a token was changed by its first pass and the
\* output of that pass was changed by the second.
C3_Witness ==
    /\ cpc = "done"
    /\ \E w \in DOMAIN applied :
          /\ Len(applied[w]) = 2
          /\ applied[w][1].output # applied[w][1].input
          /\ applied[w][2].output # applied[w][2].input
          /\ applied[w][2].output # applied[w][1].input

\* C5: totality of the rewrite.  Every iteration of the scan loop, a match
\* or a copy-through, leaves the token as it is, strictly increases the
\* offset, keeps it within the token and does not panic; the loop therefore
\* ends after at most as many iterations as the token has bytes.
C5_OffsetIncreases ==
    [][InLoop =>
         /\ cpc' = "scan"
         /\ word' = word
         /\ offset' > offset
         /\ offset' <= Len(word)]_vars

\* A scan loop has run to the end of a token of more than one character,
\* under a dictionary with entries, through a match and a copy-through.
C5_Witness ==
    /\ cpc = "scan"
    /\ offset = Len(word)
    /\ CharCount(word) > 1
    /\ DOMAIN artifacts[CurrentPass] # {}
    /\ \E a \in 1..Len(consumed) :
          PrefixKeys(CurrentPass, SliceFrom(word, consumed[a][1])) # {}
    /\ \E a \in 1..Len(consumed) :
          PrefixKeys(CurrentPass, SliceFrom(word, consumed[a][1])) = {}

\* C6: non-empty output.  Every pass run on a non-empty token yields at
\* least one code point, and convert of a non-empty input returns at least
\* one code point.
C6_NonEmptyOutput ==
    /\ \A w \in DOMAIN applied : \A i \in 1..Len(applied[w]) :
          applied[w][i].input # <<>> => CharCount(applied[w][i].output) > 0
    /\ cpc = "done" /\ join(all_words) # <<>> => CharCount(join(result)) > 0

\* convert has returned from a conversion whose first pass, built from a
\* reversed table, replaced a token by the value of a key.
C6_Witness ==
    /\ cpc = "done"
    /\ from_script = "TW"
    /\ \E w \in DOMAIN applied :
          /\ applied[w][1].input \in DOMAIN artifacts["FromTaiwan"]
          /\ applied[w][1].output = artifacts["FromTaiwan"][applied[w][1].input]

\* C9: identity passes compose to a no-op.  convert(ST, ST, text) returns
\* words whose concatenation is the concatenation of the tokens, that is,
\* the text the tokens cover.
C9_StandardIdentity ==
    cpc = "done" /\ from_script = "ST" /\ to_script = "ST" =>
       join(result) = join(all_words)

\* convert(ST, ST, text) has returned for a text of two tokens that starts
\* with a key of a pass of another script.
C9_Witness ==
    /\ cpc = "done"
    /\ from_script = "ST"
    /\ to_script = "ST"
    /\ Len(all_words) = 2
    /\ \E p \in DictionaryKeys : PrefixKeys(p, join(all_words)) # {}

(***************************************************************************)
(* Properties of the Lazies under concurrent callers.                      *)
(***************************************************************************)
\* The threads that are initializing the Lazy L.
Initializers(L) == {t \in Threads : tpc[t] \in {"init", "load"} /\ tcall[t].want = L}

\* Some file that the closure of L reads is corrupt.
CorruptFor(L) == corrupt \cap SeqRange(Stages(L)) # {}

\* C4: single initialization.  Under every interleaving of the callers the
\* closure of a Lazy is run at most once; while it runs, exactly one thread
\* runs it and the cell is not complete, so that every other caller waits or
\* finds the cell complete; a stored registry holds every pass as compiled,
\* and the dictionary a caller rewrites with is the compiled dictionary of
\* its pass, never an entry of the registry under construction.
C4_SingleInit ==
    /\ \A L \in Lazies :
          /\ lz[L].loads <= 1
          /\ Cardinality(Initializers(L)) <= 1
          /\ (lz[L].state = "running") = (Initializers(L) # {})
          /\ (lz[L].state = "complete") = (value(L) # <<>>)
    /\ DICTIONARIES # <<>> => DICTIONARIES[1] = artifacts
    /\ \A t \in Threads :
          /\ tpc[t] = "wait" => tcall[t].dict = <<>>
          /\ tpc[t] = "rewrite" =>
                /\ lz["DICTIONARIES"].state = "complete"
                /\ tcall[t].dict =
                      <<artifacts[keys(tcall[t].from, tcall[t].to)[tcall[t].kidx]]>>

\* One thread is in the closure of DICTIONARIES with some passes
\* deserialized and others not, and another thread, which asked for
\* DICTIONARIES meanwhile, waits.
C4_Witness ==
    \E t \in Threads, u \in Threads :
       /\ tpc[t] = "load"
       /\ tcall[t].want = "DICTIONARIES"
       /\ \E p \in DictionaryKeys : lz["DICTIONARIES"].building[p] # <<>>
       /\ \E p \in DictionaryKeys : lz["DICTIONARIES"].building[p] = <<>>
       /\ tpc[u] = "wait"
       /\ tcall[u].want = "DICTIONARIES"

\* C10: failure policy of convert.  A call fails (panics) only at the access
\* of a Lazy with a corrupt file, whose closure is then spent and whose cell
\* is never completed; no load is run a second time; no caller gets past a
\* Lazy with a corrupt file; and a call that returns has collected one word
\* for every token.
C10_FailurePolicy ==
    /\ \A t \in Threads :
          /\ tpc[t] = "panicked" =>
                /\ CorruptFor(tcall[t].want)
                /\ ~lz[tcall[t].want].init
          /\ tpc[t] = "returned" => Len(tcall[t].result) = Len(tcall[t].tokens)
    /\ \A L \in Lazies :
          /\ lz[L].loads <= 1
          /\ CorruptFor(L) => lz[L].state # "complete" /\ value(L) = <<>>
    /\ CorruptFor("JIEBA") =>
          \A t \in Threads : tcall[t].want = "JIEBA" /\ tpc[t] # "returned"
    /\ CorruptFor("DICTIONARIES") =>
          \A t \in Threads : tpc[t] # "rewrite" /\ tcall[t].result = <<>>

\* A pass artifact is corrupt: the thread that ran the load has panicked,
\* and so has the other thread, which called later, without a second load.
C10_Witness ==
    /\ CorruptFor("DICTIONARIES")
    /\ \A t \in Threads : tpc[t] = "panicked"
    /\ lz["DICTIONARIES"].loads = 1
    /\ lz["JIEBA"].state = "complete"

(***************************************************************************)
(* Properties of the compiler.                                             *)
(***************************************************************************)
\* The positions, in the definition of pass p, of the tables that hold key k.
TablesWith(p, k) ==
    {i \in 1..Len(dict_definitions[p]) : k \in DOMAIN dicts[dict_definitions[p][i]]}

Max(S) == CHOOSE x \in S : \A y \in S : y <= x

\* C7: pass assembly order.  Every pass written holds exactly the keys of
\* its constituent tables, forward or reversed, and under each key the value
\* of the last table of its definition that holds the key.
C7_LaterTableWins ==
    \A p \in DOMAIN artifacts :
       /\ DOMAIN artifacts[p] =
             UNION {DOMAIN dicts[dict_definitions[p][i]] : i \in 1..Len(dict_definitions[p])}
       /\ \A k \in DOMAIN artifacts[p] :
             artifacts[p][k] = dicts[dict_definitions[p][Max(TablesWith(p, k))]][k]

\* A pass has been written whose definition has two tables that give the
\* same key different values.
C7_Witness ==
    \E p \in DOMAIN artifacts : \E k \in DOMAIN artifacts[p] :
       \E i \in TablesWith(p, k), j \in TablesWith(p, k) :
          /\ i < j
          /\ dicts[dict_definitions[p][i]][k] # dicts[dict_definitions[p][j]][k]

\* Every key of every table, forward or reversed, that a pass uses.
AllTableKeys == UNION {DOMAIN dicts[n] : n \in InNames}

\* C8 as stated: the key set written holds exactly the table keys of more
\* than 3 characters.
C8_KeysOverThreeChars ==
    bpc = "done" => keys_file[1] = {k \in AllTableKeys : CharCount(k) > 3}

\* C8 as amended: the key set written holds exactly the keys, of every table
\* (forward or reversed) used by a pass, whose UTF-8 encoding is longer than
\* 3 bytes.
C8_KeysOverThreeBytes ==
    bpc = "done" => keys_file[1] = {k \in AllTableKeys : Len(k) > 3}

\* The key set has been written with a key of two characters in it, read
\* from a reversed table, and a table holds a key of 3 bytes, left out.
C8_Witness ==
    /\ bpc = "done"
    /\ \E k \in keys_file[1] :
          /\ CharCount(k) = 2
          /\ \E n \in ReversedNames : k \in DOMAIN dicts[n]
    /\ \E k \in AllTableKeys : Len(k) = 3 /\ k \notin keys_file[1]

(***************************************************************************)
(* C11: order preservation under parallelism.                              *)
(***************************************************************************)
\* The bytes of the lines before position n, each the join of its chunks,
\* in the order of the input.
WrittenLines(n) == join([i \in 1..n |-> join(results[i][1])])

\* What the write loop has written when it stands at chunk wc of line wl.
WrittenSoFar ==
    IF wl <= Len(units)
    THEN WrittenLines(wl - 1) \o join(SubSeq(results[wl][1], 1, wc - 1))
    ELSE WrittenLines(Len(units))

\* C11: whatever the order in which the workers complete the lines, no line
\* gets more than one result; once collect has returned, every line has
\* exactly one result, which is convert's for that line, the Vec holds the
\* result of the line at position i as its element i, and what is written
\* is the concatenation of the results in the order of the input: a prefix
\* of it while the loop runs, all of it when setup returns.
C11_OrderPreserved ==
    /\ \A i \in DOMAIN stored : stored[i] <= 1
    /\ cli_pc \in {"write", "done"} =>
          /\ Len(lines) = Len(units)
          /\ \A i \in 1..Len(units) :
                /\ stored[i] = 1
                /\ \E cut \in Cuts(units[i]) :
                      results[i][1] = convert(script_of(args.from), script_of(args.to), cut)
                /\ lines[i] = results[i][1]
          /\ output = WrittenSoFar
    /\ cli_pc = "done" => output = WrittenLines(Len(units))

\* Witness of C11: setup has returned after the second line was completed
\* before the first, the two lines have different results, and the output
\* is the first line's result followed by the second's.
C11_Witness ==
    /\ cli_pc = "done"
    /\ finished = <<2, 1>>
    /\ results[1] # results[2]
    /\ output = join(results[1][1]) \o join(results[2][1])
    /\ output # join(results[2][1]) \o join(results[1][1])

====
